---------------------------- MODULE Spec2Model ----------------------------
(*************************************************************************)
(* Model of the financial Telegram bot of src/main.py: the quote client  *)
(* (get_stock_data), the SQLite user store (save_user, add_to_watchlist, *)
(* get_watchlist), the aiogram handlers registered by register_handlers  *)
(* and the process start-up.                                             *)
(*                                                                       *)
(* Strings are sequences of one-character strings, so that upper(),      *)
(* strip(), split(), int() and float() are computed and not assumed.     *)
(* A Python float is kept as an integer number of hundredths.            *)
(*************************************************************************)
EXTENDS Integers, Sequences, FiniteSets, Bags, TLC

VARIABLES
    env,        \* the process environment read by os.getenv
    phase,      \* "boot", "polling" or "crashed"
    fsm,        \* MemoryStorage: user id -> conversation state
    users,      \* table users: a set of rows
    watchlist,  \* table watchlist: rows in rowid order
    tasks,      \* the handler tasks in flight (a bag of task records)
    cap,        \* how many updates the run lets be in flight at once
    shown,      \* user id -> the callback data of the inline buttons sent to the user
    upserts,    \* history: the last save_user call per id and the row it found
    adds,       \* history: the (user_id, ticker) arguments of add_to_watchlist
    probe,      \* the last direct call of the quote client and its outcome
    prompted    \* history: user id -> the state the last prompt asked for, Idle once
                \* a later text of the user is dispatched

vars == <<env, phase, fsm, users, watchlist, tasks, cap, shown, upserts, adds, probe, prompted>>

-----------------------------------------------------------------------------
(* Bounds of the model *)

\* at most this many handler tasks are in flight at once
MaxTasks == 2
\* at most this many rows are kept in the watchlist table
MaxWatch == 2
\* the longest company description has this many characters
MaxDesc == 502

-----------------------------------------------------------------------------
(* Python strings *)

None == [t |-> "None"]

\* F(x) with x evaluated once, before F is applied
Eval(F(_), x) == CHOOSE r \in {F(v) : v \in {x}} : TRUE
\* None in a place that otherwise holds a string
NoneStr == "<None>"

LowerLetters == <<"a","b","c","d","e","f","g","h","i","j","k","l","m",
                  "n","o","p","q","r","s","t","u","v","w","x","y","z">>
UpperLetters == <<"A","B","C","D","E","F","G","H","I","J","K","L","M",
                  "N","O","P","Q","R","S","T","U","V","W","X","Y","Z">>
Digits == <<"0","1","2","3","4","5","6","7","8","9">>

IsIn(c, seq) == \E i \in 1..Len(seq) : seq[i] = c
IndexOf(c, seq) == CHOOSE i \in 1..Len(seq) : seq[i] = c

UpperChar(c) == IF IsIn(c, LowerLetters) THEN UpperLetters[IndexOf(c, LowerLetters)] ELSE c

\* str.upper()
Upper(s) == [i \in 1..Len(s) |-> UpperChar(s[i])]

IsSpace(c) == c \in {" ", "\t", "\n"}

RECURSIVE LStrip(_)
LStrip(s) == IF s # <<>> /\ IsSpace(Head(s)) THEN LStrip(Tail(s)) ELSE s

RECURSIVE RStrip(_)
RStrip(s) ==
    IF s # <<>> /\ IsSpace(s[Len(s)]) THEN RStrip(SubSeq(s, 1, Len(s) - 1)) ELSE s

\* str.strip()
Strip(s) == RStrip(LStrip(s))

RECURSIVE SplitAcc(_, _, _, _)
SplitAcc(s, IsSep(_), cur, acc) ==
    IF s = <<>> THEN Append(acc, cur)
    ELSE IF IsSep(Head(s)) THEN SplitAcc(Tail(s), IsSep, <<>>, Append(acc, cur))
    ELSE SplitAcc(Tail(s), IsSep, Append(cur, Head(s)), acc)

NonEmpty(tok) == tok # <<>>

\* str.split(): on runs of whitespace, no empty tokens
Split(s) == SelectSeq(SplitAcc(s, IsSpace, <<>>, <<>>), NonEmpty)

IsUnderscore(c) == c = "_"

\* str.split("_"): on every single delimiter, empty tokens kept
SplitOn(s) == SplitAcc(s, IsUnderscore, <<>>, <<>>)

\* str.startswith(prefix)
StartsWith(s, prefix) ==
    Len(s) >= Len(prefix) /\ SubSeq(s, 1, Len(prefix)) = prefix

-----------------------------------------------------------------------------
(* int() and float() of a string.  The outcome is a returned number or a  *)
(* raised exception.                                                      *)

Ret(v) == [raised |-> FALSE, exc |-> "", v |-> v]
Exc(e) == [raised |-> TRUE, exc |-> e, v |-> 0]

IsDigit(c) == IsIn(c, Digits)
DigitVal(c) == IndexOf(c, Digits) - 1

\* the value of the first k digits of ds
RECURSIVE DecValTo(_, _)
DecValTo(ds, k) == IF k = 0 THEN 0 ELSE 10 * DecValTo(ds, k - 1) + DigitVal(ds[k])

DecVal(ds) == DecValTo(ds, Len(ds))

HasSign(tok) == tok # <<>> /\ Head(tok) \in {"+", "-"}
SignOf(tok) == IF tok # <<>> /\ Head(tok) = "-" THEN -1 ELSE 1
Unsigned(tok) == IF HasSign(tok) THEN Tail(tok) ELSE tok

\* digits, single underscores allowed between digits (Python's digitpart)
IsDigitPart(b) ==
    /\ b # <<>>
    /\ \A i \in 1..Len(b) : IsDigit(b[i]) \/ b[i] = "_"
    /\ IsDigit(b[1]) /\ IsDigit(b[Len(b)])
    /\ \A i \in 1..(Len(b) - 1) : ~(b[i] = "_" /\ b[i + 1] = "_")

\* int(tok) for a token without surrounding whitespace
IntOf(sign, b) ==
    IF IsDigitPart(b) THEN Ret(sign * DecVal(SelectSeq(b, IsDigit))) ELSE Exc("ValueError")

IntOfToken(tok) == IntOf(SignOf(tok), Unsigned(tok))

ParseInt(tok) == Eval(IntOfToken, tok)

\* the first two fractional digits of a digit string, as hundredths
FirstTwo(d) ==
    (IF Len(d) >= 1 THEN 10 * DigitVal(d[1]) ELSE 0) + (IF Len(d) >= 2 THEN DigitVal(d[2]) ELSE 0)

Hundredths(fr) == FirstTwo(SelectSeq(fr, IsDigit))

IsDot(c) == c = "."

\* float(tok) in hundredths, for decimal literals ("12", "12.", ".5",
\* "12.50"); tokens with an exponent, "inf" or "nan" are outside the model's
\* inputs.  Digits after the second fractional one are dropped.
FloatOf(sign, ip, fp) ==
    IF /\ ip # <<>> \/ fp # <<>>
       /\ ip = <<>> \/ IsDigitPart(ip)
       /\ fp = <<>> \/ IsDigitPart(fp)
    THEN Ret(sign * (100 * DecVal(SelectSeq(ip, IsDigit)) + Hundredths(fp)))
    ELSE Exc("ValueError")

\* parts[1] is the sign (as "-" or "+"), the rest the token cut at the dots
FloatOfParts(parts) ==
    IF Len(parts) > 3 THEN Exc("ValueError")
    ELSE FloatOf(IF parts[1] = <<"-">> THEN -1 ELSE 1, parts[2],
                 IF Len(parts) = 3 THEN parts[3] ELSE <<>>)

FloatOfToken(tok) ==
    Eval(FloatOfParts, <<IF SignOf(tok) < 0 THEN <<"-">> ELSE <<"+">> >> \o
                       SplitAcc(Unsigned(tok), IsDot, <<>>, <<>>))

ParseFloat(tok) == Eval(FloatOfToken, tok)

\* a value handed to int()/float(): a string, or the number of a default
Str(s) == [t |-> "str", s |-> s, n |-> 0]
Num(n) == [t |-> "num", s |-> <<>>, n |-> n]

PyFloat(x) == IF x.t = "num" THEN Ret(100 * x.n) ELSE ParseFloat(x.s)
PyInt(x) == IF x.t = "num" THEN Ret(x.n) ELSE ParseInt(x.s)

-----------------------------------------------------------------------------
(* Quote client: get_stock_data *)

\* dict.get(key, default), the stored values being strings
Get(d, key, default) == IF key \in DOMAIN d THEN Str(d[key]) ELSE default

\* what session.get(...) and response.json() produce
NetError == [kind |-> "error", data |-> <<>>]
NetMalformed == [kind |-> "malformed", data |-> <<>>]
NetJson(data) == [kind |-> "json", data |-> data]

\* the conversions of lines 104-111, in evaluation order
QuoteNumbers(quote) ==
    << PyFloat(Get(quote, "05. price", Num(0))),
       PyFloat(Get(quote, "09. change", Num(0))),
       PyInt(Get(quote, "06. volume", Num(0))),
       PyFloat(Get(quote, "03. high", Num(0))),
       PyFloat(Get(quote, "04. low", Num(0))),
       PyFloat(Get(quote, "02. open", Num(0))),
       PyFloat(Get(quote, "08. previous close", Num(0))) >>

\* lines 102-112: the record, or the first exception of the conversions
QuoteFrom(quote, n) ==
    IF \E i \in 1..Len(n) : n[i].raised
    THEN Exc(n[CHOOSE i \in 1..Len(n) :
                 n[i].raised /\ \A j \in 1..(i - 1) : ~n[j].raised].exc)
    ELSE Ret([symbol |-> Get(quote, "01. symbol", Str(<<>>)).s,
              price |-> n[1].v,
              change |-> n[2].v,
              change_percent |-> Get(quote, "10. change percent", Str(<<"0", "%">>)).s,
              volume |-> n[3].v,
              high |-> n[4].v,
              low |-> n[5].v,
              open |-> n[6].v,
              previous_close |-> n[7].v])

\* the body of the try block once the JSON document is at hand; without the
\* key the function falls off its end and returns None
QuoteOfNumbers(qn) == QuoteFrom(qn[1], qn[2])

QuoteRecord(data) ==
    IF "Global Quote" \in DOMAIN data
    THEN Eval(QuoteOfNumbers, <<data["Global Quote"], QuoteNumbers(data["Global Quote"])>>)
    ELSE Ret(None)

\* the try block: the request (a missing API key makes the query string
\* invalid, which raises inside the block), the JSON decoding, the record
QuoteTry(apikey, net) ==
    IF apikey = NoneStr THEN Exc("TypeError")
    ELSE IF net.kind = "error" THEN Exc("ClientError")
    ELSE IF net.kind = "malformed" THEN Exc("ContentTypeError")
    ELSE QuoteRecord(net.data)

\* an except clause that lets the exception through
ExceptReraise(r) == r

\* the except clause: every exception becomes None
ExceptReturnNone(r) == IF r.raised THEN Ret(None) ELSE r

get_stock_data(ticker, apikey, net) == ExceptReturnNone(QuoteTry(apikey, net))

\* "if not stock_data": None is falsy, a record of nine keys is truthy
Falsy(stock_data) == stock_data = None

-----------------------------------------------------------------------------
(* User store *)

UserRow(user_id, username, first_name) ==
    [user_id |-> user_id, username |-> username, first_name |-> first_name]

\* a plain INSERT INTO users: the primary key rejects a second row for an id
save_user_insert(tbl, user_id, username, first_name) ==
    IF \E r \in tbl : r.user_id = user_id
    THEN [raised |-> TRUE, tbl |-> tbl]
    ELSE [raised |-> FALSE, tbl |-> tbl \cup {UserRow(user_id, username, first_name)}]

\* INSERT OR REPLACE INTO users: a row with the same primary key is deleted
\* first, so the statement cannot fail on a duplicate id
save_user(tbl, user_id, username, first_name) ==
    [raised |-> FALSE,
     tbl |-> {r \in tbl : r.user_id # user_id} \cup {UserRow(user_id, username, first_name)}]

\* an INSERT INTO watchlist with the ticker stored as it was given
add_to_watchlist_verbatim(tbl, user_id, ticker) ==
    Append(tbl, [id |-> Len(tbl) + 1, user_id |-> user_id, ticker |-> ticker])

\* INSERT INTO watchlist of ticker.upper(): a new rowid after every existing one
add_to_watchlist(tbl, user_id, ticker) ==
    Append(tbl, [id |-> Len(tbl) + 1, user_id |-> user_id, ticker |-> Upper(ticker)])

\* SELECT ticker FROM watchlist WHERE user_id = ?: a scan in rowid order
get_watchlist(tbl, user_id) ==
    LET Mine(r) == r.user_id = user_id
        rows == SelectSeq(tbl, Mine)
    IN [i \in 1..Len(rows) |-> rows[i].ticker]

\* "user.username or ''"
OrEmpty(x) == IF x = NoneStr THEN "" ELSE x

-----------------------------------------------------------------------------
(* Conversation states, inbound texts and the routing of aiogram *)

\* MemoryStorage holds None for a user without a state
Idle == "Idle"
AwaitingTicker == "waiting_for_ticker"
AwaitingCalculatorInput == "calculator_input"
States == {Idle, AwaitingTicker, AwaitingCalculatorInput}

\* the labels of the reply keyboard; "#" stands for the label's emoji
BtnAnalyze == <<"#", " ", "A", "n", "a", "l", "i", "z", " ", "a", "k", "c", "i", "i">>
BtnOverview == <<"#", " ", "O", "g", "l", "i", "a", "d", " ", "k", "o", "m", "p", "a", "n", "i", "i">>
BtnWatchlist == <<"#", " ", "M", "i", "j", " ", "s", "p", "y", "s", "o", "k">>
BtnCalculator == <<"#", " ", "K", "a", "l", "k", "u", "l", "i", "a", "t", "o", "r">>
BtnTips == <<"#", " ", "P", "o", "r", "a", "d", "y">>
BtnTop == <<"#", " ", "T", "o", "p", " ", "a", "k", "c", "i", "i">>

\* filter Command(name): the first whitespace-separated token is "/" + name
IsCommand(text, name) ==
    \E toks \in {Split(text)} : toks # <<>> /\ toks[1] = <<"/">> \o name

CmdStart == <<"s", "t", "a", "r", "t">>
CmdStock == <<"s", "t", "o", "c", "k">>
CmdOverview == <<"o", "v", "e", "r", "v", "i", "e", "w">>
CmdWatchlist == <<"w", "a", "t", "c", "h", "l", "i", "s", "t">>
CmdCalculator == <<"c", "a", "l", "c", "u", "l", "a", "t", "o", "r">>
CmdTips == <<"t", "i", "p", "s">>

\* the message handlers in registration order, each behind its filter; the
\* dispatcher runs the first whose filter passes
Route(st, text) ==
    IF IsCommand(text, CmdStart) THEN "start_handler"
    ELSE IF IsCommand(text, CmdStock) THEN "stock_command"
    ELSE IF IsCommand(text, CmdOverview) THEN "overview_command"
    ELSE IF IsCommand(text, CmdWatchlist) THEN "watchlist_command"
    ELSE IF IsCommand(text, CmdCalculator) THEN "calculator_command"
    ELSE IF IsCommand(text, CmdTips) THEN "tips_command"
    ELSE IF text = BtnAnalyze THEN "analyze_stock_button"
    ELSE IF text = BtnOverview THEN "company_overview_button"
    ELSE IF text = BtnWatchlist THEN "my_watchlist_button"
    ELSE IF text = BtnCalculator THEN "calculator_button"
    ELSE IF text = BtnTips THEN "tips_button"
    ELSE IF text = BtnTop THEN "top_stocks_button"
    ELSE IF st = AwaitingTicker THEN "process_ticker"
    ELSE IF st = AwaitingCalculatorInput THEN "process_calculator"
    ELSE "unhandled"

PfxAnalyze == <<"a", "n", "a", "l", "y", "z", "e", "_">>
PfxAddWatchlist == <<"a", "d", "d", "_", "w", "a", "t", "c", "h", "l", "i", "s", "t", "_">>
PfxOverview == <<"o", "v", "e", "r", "v", "i", "e", "w", "_">>

\* the callback-query handlers in registration order
RouteCallback(data) ==
    IF StartsWith(data, PfxAnalyze) THEN "analyze_callback"
    ELSE IF StartsWith(data, PfxAddWatchlist) THEN "add_watchlist_callback"
    ELSE IF StartsWith(data, PfxOverview) THEN "overview_callback"
    ELSE "unhandled"

-----------------------------------------------------------------------------
(* The inputs of the model *)

Users == {1}

TxtStart == <<"/", "s", "t", "a", "r", "t">>
TxtStock == <<"/", "s", "t", "o", "c", "k">>
TxtStockArg == <<"/", "s", "t", "o", "c", "k", " ", "a", "a", "p", "l", " ", "n", "o", "w">>
TxtOverview == <<"/", "o", "v", "e", "r", "v", "i", "e", "w">>
TxtOverviewArg == <<"/", "o", "v", "e", "r", "v", "i", "e", "w", " ", "a", "a", "p", "l">>
TxtWatchlist == <<"/", "w", "a", "t", "c", "h", "l", "i", "s", "t">>
TxtCalculator == <<"/", "c", "a", "l", "c", "u", "l", "a", "t", "o", "r">>
TxtTips == <<"/", "t", "i", "p", "s">>
TxtHelp == <<"/", "h", "e", "l", "p">>
TxtTicker == <<" ", "a", "a", "p", "l", " ">>
TxtTickerTsla == <<"t", "s", "l", "a">>
TxtStockTsla == <<"/", "s", "t", "o", "c", "k", " ", "t", "s", "l", "a">>
TxtCalc == <<"a", "a", "p", "l", " ", "1", "0", " ", "1", "5", "0", ".", "5", "0">>
TxtCalcZeroPrice == <<"A", "A", "P", "L", " ", "1", "0", " ", "0">>
TxtCalcZeroShares == <<"A", "A", "P", "L", " ", "0", " ", "5">>
TxtCalcBadNumber == <<"A", "A", "P", "L", " ", "t", "e", "n", " ", "1", "5", "0", ".", "5", "0">>
TxtCalcTwoTokens == <<"A", "A", "P", "L", " ", "1", "0">>

Commands == {TxtStart, TxtStock, TxtStockArg, TxtStockTsla, TxtOverview,
             TxtOverviewArg, TxtWatchlist, TxtCalculator, TxtTips}
Labels == {BtnAnalyze, BtnOverview, BtnWatchlist, BtnCalculator, BtnTips, BtnTop}
TxtCalcEven == <<"A", "A", "P", "L", " ", "3", " ", "1", "6", "0">>
TxtCalcLoss == <<"A", "A", "P", "L", " ", "-", "7", " ", "1", "5", "9", ".", "9">>
CalculatorTexts == {TxtCalc, TxtCalcZeroPrice, TxtCalcZeroShares,
                    TxtCalcBadNumber, TxtCalcTwoTokens, TxtCalcEven, TxtCalcLoss}
\* a ticker with the delimiter of the button payloads in it
TxtTickerUnderscore == <<"b", "r", "k", "_", "b">>
FreeTexts == {TxtTicker, TxtTickerTsla, TxtTickerUnderscore, TxtHelp} \cup CalculatorTexts
Texts == Commands \cup Labels \cup FreeTexts

\* the profile fields Telegram attaches to a message
Usernames == {NoneStr, "ann"}
FirstNames == {"Ann", "Anna"}
\* a user without a username, and the same user after a change of both fields
Profiles == {<<NoneStr, "Ann">>, <<"ann", "Anna">>}

\* provider answers to a quote request
GoodQuote ==
    ("01. symbol" :> <<"A", "A", "P", "L">> @@ "02. open" :> <<"1", "5", "8", ".", "0", "0">> @@
     "03. high" :> <<"1", "6", "1", ".", "2", "0">> @@ "04. low" :> <<"1", "5", "7", ".", "1", "0">> @@
     "05. price" :> <<"1", "6", "0", ".", "0", "0">> @@ "06. volume" :> <<"1", "2", "0", "0">> @@
     "08. previous close" :> <<"1", "5", "9", ".", "0", "0">> @@ "09. change" :> <<"1", ".", "0", "0">> @@
     "10. change percent" :> <<"0", ".", "6", "3", "%">>)
RateLimited == ("Note" :> ("text" :> <<"l", "i", "m", "i", "t">>))
EmptyQuote == [k \in {} |-> <<>>]
QuoteNets == {NetError, NetJson(RateLimited), NetJson("Global Quote" :> GoodQuote)}
CalculatorNets == QuoteNets \cup {NetJson("Global Quote" :> EmptyQuote)}

\* provider answers to an overview request
OverviewNets ==
    {NetError,
     NetJson("Note" :> <<"l", "i", "m", "i", "t">>),
     NetJson("Symbol" :> <<"A", "A", "P", "L">> @@ "Description" :> <<"A", "p", "p", "l", "e">>)}

\* the handler of every text in every state, computed once
RouteTable == [st \in States |-> [text \in Texts |-> Route(st, text)]]

-----------------------------------------------------------------------------
(* Handler tasks.  A task is one run of a handler; it is suspended at `pc`  *)
(* in an await of the network (a send to the chat or a provider request).  *)
(* `reqs` and `got` are history: the tickers requested from the provider   *)
(* and the values get_stock_data returned to the watch-list loop.          *)
(* state.set_state and state.clear of MemoryStorage do not suspend.        *)

NewTask(u, handler, text) ==
    [user |-> u, handler |-> handler, st |-> fsm[u], text |-> text, pc |-> "",
     ticker |-> <<>>, data |-> None, wl |-> <<>>, i |-> 0, lines |-> <<>>,
     shares |-> 0, buy_price |-> 0, out |-> <<>>, reqs |-> <<>>, got |-> <<>>]

Msg(kind, ticker, body, buttons) ==
    [kind |-> kind, ticker |-> ticker, body |-> body, buttons |-> buttons]

\* message.answer(...): the message goes out and the task waits at pc
Answer(t, msg, pc) == [t EXCEPT !.out = Append(@, msg), !.pc = pc]

\* the request of get_stock_data leaves; the task waits for the response
Request(t, ticker, pc) == [t EXCEPT !.reqs = Append(@, ticker), !.pc = pc]

Spawn(t) == tasks (+) SetToBag({t})
Replace(t, t2) == (tasks (-) SetToBag({t})) (+) SetToBag({t2})
Drop(t) == tasks (-) SetToBag({t})
Running == BagToSet(tasks)

CanDispatch == phase = "polling" /\ BagCardinality(tasks) < cap

ApiKey == env.ALPHA_VANTAGE_API_KEY

-----------------------------------------------------------------------------
(* Start-up: module level, FinancialBot.__init__, start_bot *)

\* Bot(token=BOT_TOKEN) validates the token and raises when it is None;
\* ALPHA_VANTAGE_API_KEY is only read when a request is built
Start ==
    /\ phase = "boot"
    /\ phase' = IF env.BOT_TOKEN = NoneStr THEN "crashed" ELSE "polling"
    /\ UNCHANGED <<cap, env, fsm, users, watchlist, tasks, shown, upserts, adds, probe, prompted>>

-----------------------------------------------------------------------------
(* send_stock_analysis *)

\* what the task does when the flow it called has sent its last message:
\* the statements of the caller after the call
Continuation(handler) ==
    CASE handler = "process_ticker" -> "clear"
      [] handler \in {"analyze_callback", "overview_callback"} -> "cb_answer"
      [] OTHER -> "last"

\* line 392: the acknowledgement
EnterAnalysis(t, ticker) ==
    Answer([t EXCEPT !.ticker = ticker], Msg("ack", <<>>, <<>>, <<>>), "ack")

\* a keyboard with the overview button only
AnalysisButtonsOverviewOnly(ticker) == <<PfxOverview \o ticker>>
AnalysisButtons(ticker) == <<PfxAddWatchlist \o ticker, PfxOverview \o ticker>>

\* lines 395-426, stock_data being the value get_stock_data returned
RenderAnalysis(t, stock_data) ==
    IF Falsy(stock_data)
    THEN Answer([t EXCEPT !.data = stock_data],
                Msg("nodata", t.ticker, <<>>, <<>>), Continuation(t.handler))
    ELSE Answer([t EXCEPT !.data = stock_data],
                Msg("analysis", t.ticker,
                    [data |-> stock_data, up |-> stock_data.change > 0],
                    AnalysisButtons(t.ticker)), Continuation(t.handler))

\* line 394: the acknowledgement is out, the request is issued
send_stock_analysis_fetch(t) ==
    /\ t \in Running /\ t.pc = "ack"
    /\ tasks' = Replace(t, Request(t, t.ticker, "fetch"))
    /\ UNCHANGED <<cap, env, phase, fsm, users, watchlist, shown, upserts, adds, probe, prompted>>

\* the buttons a message carries become pressable
Shows(t, msg) ==
    [shown EXCEPT ![t.user] = @ \cup {msg.buttons[k] : k \in 1..Len(msg.buttons)}]

\* get_stock_data has returned r; an exception out of it would end the task
AnalysisResumed(t, r) ==
    IF r.raised
    THEN /\ tasks' = Drop(t)
         /\ UNCHANGED shown
    ELSE /\ tasks' = Replace(t, RenderAnalysis(t, r.v))
         /\ shown' = Shows(t, RenderAnalysis(t, r.v).out[Len(t.out) + 1])

\* lines 394-426: the response arrives
send_stock_analysis_render(t, net) ==
    /\ t \in Running /\ t.pc = "fetch"
    /\ AnalysisResumed(t, get_stock_data(t.ticker, ApiKey, net))
    /\ UNCHANGED <<cap, env, phase, fsm, users, watchlist, upserts, adds, probe, prompted>>

-----------------------------------------------------------------------------
(* send_company_overview *)

\* get_company_overview: the document when it has the key Symbol, else None
get_company_overview(ticker, apikey, net) ==
    IF apikey = NoneStr \/ net.kind # "json" THEN Ret(None)
    ELSE IF "Symbol" \in DOMAIN net.data THEN Ret(net.data) ELSE Ret(None)

\* line 430
EnterOverview(t, ticker) ==
    Answer([t EXCEPT !.ticker = ticker], Msg("overview_ack", <<>>, <<>>, <<>>), "o_ack")

send_company_overview_fetch(t) ==
    /\ t \in Running /\ t.pc = "o_ack"
    /\ tasks' = Replace(t, Request(t, t.ticker, "o_fetch"))
    /\ UNCHANGED <<cap, env, phase, fsm, users, watchlist, shown, upserts, adds, probe, prompted>>

\* the text shown for a document without "Description" (transliterated)
DescriptionDefault ==
    <<"O", "p", "y", "s", " ", "n", "e", "d", "o", "s", "t", "u", "p", "n", "y", "i">>

\* the slice bound of line 453
DescriptionLimit == 500

\* the whole description followed by "..."
TruncatedNowhere(desc) == desc \o <<".", ".", ".">>

\* "Description"[:500] followed by "..."
Truncated(desc) ==
    SubSeq(desc, 1, IF Len(desc) < DescriptionLimit THEN Len(desc) ELSE DescriptionLimit)
        \o <<".", ".", ".">>

\* lines 433-456, overview_data being the value get_company_overview returned
RenderOverview(t, overview_data) ==
    IF overview_data = None
    THEN Answer([t EXCEPT !.data = overview_data],
                Msg("overview_nodata", t.ticker, <<>>, <<>>), Continuation(t.handler))
    ELSE Answer([t EXCEPT !.data = overview_data],
                Msg("overview", t.ticker,
                    Truncated(IF "Description" \in DOMAIN overview_data
                              THEN overview_data["Description"] ELSE DescriptionDefault),
                    <<>>), Continuation(t.handler))

send_company_overview_render(t, net) ==
    /\ t \in Running /\ t.pc = "o_fetch"
    /\ tasks' = Replace(t, RenderOverview(t, get_company_overview(t.ticker, ApiKey, net).v))
    /\ UNCHANGED <<cap, env, phase, fsm, users, watchlist, shown, upserts, adds, probe, prompted>>

-----------------------------------------------------------------------------
(* The message handlers of register_handlers.  Each action is the dispatch *)
(* of one inbound text to the handler the filters select, run up to the    *)
(* handler's first suspension.                                             *)


\* the state a handler's prompt asks the user to answer in: lines 258-261 for
\* the calculator, 280-281 and 285-286 for the ticker; Idle for no prompt
PromptOf(handler) ==
    IF handler \in {"calculator_command", "calculator_button"} THEN AwaitingCalculatorInput
    ELSE IF handler \in {"analyze_stock_button", "company_overview_button"} THEN AwaitingTicker
    ELSE Idle

Routed(u, text, handler) ==
    /\ CanDispatch /\ RouteTable[fsm[u]][text] = handler
    /\ prompted' = [prompted EXCEPT ![u] = PromptOf(handler)]

start_handler(u, text, username, first_name) ==
    /\ Routed(u, text, "start_handler")
    /\ LET r == save_user(users, u, OrEmpty(username), OrEmpty(first_name)) IN
       /\ users' = r.tbl
       /\ tasks' = IF r.raised THEN tasks
                   ELSE Spawn(Answer(NewTask(u, "start_handler", text),
                                     Msg("welcome", <<>>, <<>>, <<>>), "last"))
    /\ upserts' = [upserts EXCEPT ![u] =
                     [called |-> TRUE, username |-> OrEmpty(username),
                      first_name |-> OrEmpty(first_name),
                      before |-> {r \in users : r.user_id = u}]]
    /\ UNCHANGED <<cap, env, phase, fsm, watchlist, shown, adds, probe>>

\* a /stock that takes the last token of the message as the ticker
stock_command_last_token(u, text) ==
    /\ Routed(u, text, "stock_command")
    /\ LET args == Split(text)
           t == NewTask(u, "stock_command", text)
       IN tasks' = Spawn(IF Len(args) < 2
                         THEN Answer(t, Msg("usage_stock", <<>>, <<>>, <<>>), "last")
                         ELSE EnterAnalysis(t, Upper(args[Len(args)])))
    /\ UNCHANGED <<cap, env, phase, fsm, users, watchlist, shown, upserts, adds, probe>>
stock_command(u, text) ==
    /\ Routed(u, text, "stock_command")
    /\ LET args == Split(text)
           t == NewTask(u, "stock_command", text)
       IN tasks' = Spawn(IF Len(args) < 2
                         THEN Answer(t, Msg("usage_stock", <<>>, <<>>, <<>>), "last")
                         ELSE EnterAnalysis(t, Upper(args[2])))
    /\ UNCHANGED <<cap, env, phase, fsm, users, watchlist, shown, upserts, adds, probe>>

overview_command(u, text) ==
    /\ Routed(u, text, "overview_command")
    /\ LET args == Split(text)
           t == NewTask(u, "overview_command", text)
       IN tasks' = Spawn(IF Len(args) < 2
                         THEN Answer(t, Msg("usage_overview", <<>>, <<>>, <<>>), "last")
                         ELSE EnterOverview(t, Upper(args[2])))
    /\ UNCHANGED <<cap, env, phase, fsm, users, watchlist, shown, upserts, adds, probe>>

\* lines 233-242: the list is read once; an empty list is answered at once,
\* otherwise the request for the first entry leaves
WatchlistLoop(t, wl) ==
    IF wl = <<>> THEN Answer(t, Msg("watchlist_empty", <<>>, <<>>, <<>>), "last")
    ELSE Request([t EXCEPT !.wl = wl, !.i = 1], wl[1], "w_fetch")

WatchlistStart(t) == WatchlistLoop(t, get_watchlist(watchlist, t.user))

watchlist_command(u, text) ==
    /\ Routed(u, text, "watchlist_command")
    /\ tasks' = Spawn(WatchlistStart(NewTask(u, "watchlist_command", text)))
    /\ UNCHANGED <<cap, env, phase, fsm, users, watchlist, shown, upserts, adds, probe>>

my_watchlist_button(u, text) ==
    /\ Routed(u, text, "my_watchlist_button")
    /\ tasks' = Spawn(WatchlistStart(NewTask(u, "my_watchlist_button", text)))
    /\ UNCHANGED <<cap, env, phase, fsm, users, watchlist, shown, upserts, adds, probe>>

\* lines 243-248: the line of one entry
WatchlistLine(ticker, stock_data) ==
    IF ~Falsy(stock_data)
    THEN [kind |-> "data", ticker |-> ticker, up |-> stock_data.change > 0,
          price |-> stock_data.price, change_percent |-> stock_data.change_percent]
    ELSE [kind |-> "unavailable", ticker |-> ticker, up |-> FALSE,
          price |-> 0, change_percent |-> <<>>]

\* a loop that stops at the first entry without data and sends what it has
WatchlistTurnAbort(t, stock_data) ==
    LET t2 == [t EXCEPT !.lines = Append(@, WatchlistLine(t.wl[t.i], stock_data)),
                        !.got = Append(@, stock_data)] IN
    IF Falsy(stock_data) THEN Answer(t, Msg("watchlist", <<>>, t.lines, <<>>), "last")
    ELSE IF t.i < Len(t.wl)
    THEN Request([t2 EXCEPT !.i = t.i + 1], t.wl[t.i + 1], "w_fetch")
    ELSE Answer(t2, Msg("watchlist", <<>>, t2.lines, <<>>), "last")

\* lines 241-250: one turn of the loop on the arrival of a response
WatchlistTurn(t, stock_data) ==
    LET t2 == [t EXCEPT !.lines = Append(@, WatchlistLine(t.wl[t.i], stock_data)),
                        !.got = Append(@, stock_data)] IN
    IF t.i < Len(t.wl)
    THEN Request([t2 EXCEPT !.i = t.i + 1], t.wl[t.i + 1], "w_fetch")
    ELSE Answer(t2, Msg("watchlist", <<>>, t2.lines, <<>>), "last")

WatchlistResumed(t, r) == IF r.raised THEN Drop(t) ELSE Replace(t, WatchlistTurn(t, r.v))

watchlist_quote(t, net) ==
    /\ t \in Running /\ t.pc = "w_fetch"
    /\ tasks' = WatchlistResumed(t, get_stock_data(t.wl[t.i], ApiKey, net))
    /\ UNCHANGED <<cap, env, phase, fsm, users, watchlist, shown, upserts, adds, probe, prompted>>

calculator_command(u, text) ==
    /\ Routed(u, text, "calculator_command")
    /\ tasks' = Spawn(Answer(NewTask(u, "calculator_command", text),
                             Msg("calculator_prompt", <<>>, <<>>, <<>>), "set_calculator"))
    /\ UNCHANGED <<cap, env, phase, fsm, users, watchlist, shown, upserts, adds, probe>>

calculator_button(u, text) ==
    /\ Routed(u, text, "calculator_button")
    /\ tasks' = Spawn(Answer(NewTask(u, "calculator_button", text),
                             Msg("calculator_prompt", <<>>, <<>>, <<>>), "set_calculator"))
    /\ UNCHANGED <<cap, env, phase, fsm, users, watchlist, shown, upserts, adds, probe>>

\* line 261: the prompt is out, state.set_state(calculator_input)
calculator_set_state(t) ==
    /\ t \in Running /\ t.pc = "set_calculator"
    /\ fsm' = [fsm EXCEPT ![t.user] = AwaitingCalculatorInput]
    /\ tasks' = Drop(t)
    /\ UNCHANGED <<cap, env, phase, users, watchlist, shown, upserts, adds, probe, prompted>>

\* a tips_command that clears the state
tips_command_clear(u, text) ==
    /\ Routed(u, text, "tips_command")
    /\ fsm' = [fsm EXCEPT ![u] = Idle]
    /\ tasks' = Spawn(Answer(NewTask(u, "tips_command", text),
                             Msg("tips", <<>>, <<>>, <<>>), "last"))
    /\ UNCHANGED <<cap, env, phase, users, watchlist, shown, upserts, adds, probe>>
tips_command(u, text) ==
    /\ Routed(u, text, "tips_command")
    /\ tasks' = Spawn(Answer(NewTask(u, "tips_command", text),
                             Msg("tips", <<>>, <<>>, <<>>), "last"))
    /\ UNCHANGED <<cap, env, phase, fsm, users, watchlist, shown, upserts, adds, probe>>

tips_button(u, text) ==
    /\ Routed(u, text, "tips_button")
    /\ tasks' = Spawn(Answer(NewTask(u, "tips_button", text),
                             Msg("tips", <<>>, <<>>, <<>>), "last"))
    /\ UNCHANGED <<cap, env, phase, fsm, users, watchlist, shown, upserts, adds, probe>>

analyze_stock_button(u, text) ==
    /\ Routed(u, text, "analyze_stock_button")
    /\ tasks' = Spawn(Answer(NewTask(u, "analyze_stock_button", text),
                             Msg("ticker_prompt", <<>>, <<>>, <<>>), "set_ticker"))
    /\ UNCHANGED <<cap, env, phase, fsm, users, watchlist, shown, upserts, adds, probe>>

company_overview_button(u, text) ==
    /\ Routed(u, text, "company_overview_button")
    /\ tasks' = Spawn(Answer(NewTask(u, "company_overview_button", text),
                             Msg("overview_prompt", <<>>, <<>>, <<>>), "set_ticker"))
    /\ UNCHANGED <<cap, env, phase, fsm, users, watchlist, shown, upserts, adds, probe>>

\* lines 281 and 286: the prompt is out, state.set_state(waiting_for_ticker)
ticker_set_state(t) ==
    /\ t \in Running /\ t.pc = "set_ticker"
    /\ fsm' = [fsm EXCEPT ![t.user] = AwaitingTicker]
    /\ tasks' = Drop(t)
    /\ UNCHANGED <<cap, env, phase, users, watchlist, shown, upserts, adds, probe, prompted>>

top_stocks == <<<<"A", "A", "P", "L">>, <<"M", "S", "F", "T">>, <<"G", "O", "O", "G", "L">>, <<"A", "M", "Z", "N">>, <<"T", "S", "L", "A">>, <<"M", "E", "T", "A">>, <<"N", "V", "D", "A">>, <<"J", "P", "M">>>>

TopStocksButtons == [k \in 1..Len(top_stocks) |-> PfxAnalyze \o top_stocks[k]]

top_stocks_button(u, text) ==
    /\ Routed(u, text, "top_stocks_button")
    /\ tasks' = Spawn(Answer(NewTask(u, "top_stocks_button", text),
                             Msg("top_stocks", <<>>, <<>>, TopStocksButtons), "last"))
    /\ shown' = [shown EXCEPT ![u] = @ \cup {TopStocksButtons[k] : k \in 1..Len(top_stocks)}]
    /\ UNCHANGED <<cap, env, phase, fsm, users, watchlist, upserts, adds, probe>>

\* a process_ticker that clears the state before it runs the flow
process_ticker_clear_first(u, text) ==
    /\ Routed(u, text, "process_ticker")
    /\ fsm' = [fsm EXCEPT ![u] = Idle]
    /\ tasks' = Spawn(Answer([NewTask(u, "process_ticker", text)
                                 EXCEPT !.ticker = Strip(Upper(text))],
                             Msg("ack", <<>>, <<>>, <<>>), "ack"))
    /\ UNCHANGED <<cap, env, phase, users, watchlist, shown, upserts, adds, probe>>
\* a process_ticker that runs the overview flow for the text
process_ticker_overview(u, text) ==
    /\ Routed(u, text, "process_ticker")
    /\ tasks' = Spawn(EnterOverview(NewTask(u, "process_ticker", text), Strip(Upper(text))))
    /\ UNCHANGED <<cap, env, phase, fsm, users, watchlist, shown, upserts, adds, probe>>
process_ticker(u, text) ==
    /\ Routed(u, text, "process_ticker")
    /\ tasks' = Spawn(EnterAnalysis(NewTask(u, "process_ticker", text), Strip(Upper(text))))
    /\ UNCHANGED <<cap, env, phase, fsm, users, watchlist, shown, upserts, adds, probe>>

\* line 337: send_stock_analysis has returned, state.clear()
\* a state.clear() that resets the state of every user of the storage
process_ticker_clear_all(t) ==
    /\ t \in Running /\ t.pc = "clear" /\ t.handler = "process_ticker"
    /\ fsm' = [u \in DOMAIN fsm |-> Idle]
    /\ tasks' = Drop(t)
    /\ UNCHANGED <<cap, env, phase, users, watchlist, shown, upserts, adds, probe, prompted>>
process_ticker_clear(t) ==
    /\ t \in Running /\ t.pc = "clear" /\ t.handler = "process_ticker"
    /\ fsm' = [fsm EXCEPT ![t.user] = Idle]
    /\ tasks' = Drop(t)
    /\ UNCHANGED <<cap, env, phase, users, watchlist, shown, upserts, adds, probe, prompted>>

\* the last await of a handler has completed and nothing follows it
Finish(t) ==
    /\ t \in Running /\ t.pc = "last"
    /\ tasks' = Drop(t)
    /\ UNCHANGED <<cap, env, phase, fsm, users, watchlist, shown, upserts, adds, probe, prompted>>


-----------------------------------------------------------------------------
(* process_calculator *)

FormatError == Msg("format_error", <<>>, <<>>, <<>>)

\* lines 342-348: the parse of the input, an exception for a bad one
CalculatorArgs(ticker, shares, buy_price) ==
    IF shares.raised THEN shares
    ELSE IF buy_price.raised THEN buy_price
    ELSE Ret([ticker |-> ticker, shares |-> shares.v, buy_price |-> buy_price.v])

CalculatorParts(parts) ==
    IF Len(parts) # 3 THEN Exc("ValueError")
    ELSE CalculatorArgs(parts[1], ParseInt(parts[2]), ParseFloat(parts[3]))

CalculatorParse(text) == Eval(CalculatorParts, Split(Strip(text)))

\* "{x:+.2f}" of the quotient n / d times 100, as an integer number of
\* hundredths: the nearest one, a tie going to the even neighbour
RoundedPercent(n, d) ==
    LET Abs(x) == IF x < 0 THEN -x ELSE x
        q == (Abs(n) * 10000) \div Abs(d)
        r == (Abs(n) * 10000) % Abs(d)
        up == 2 * r > Abs(d) \/ (2 * r = Abs(d) /\ q % 2 = 1)
    IN (IF (n < 0) # (d < 0) THEN -1 ELSE 1) * (IF up THEN q + 1 ELSE q)

\* the arithmetic with the indicator chosen by profit_loss >= 0
CalculatorResultUpOnZero(shares, buy_price, current_price) ==
    LET total_invested == shares * buy_price
        current_value == shares * current_price
        profit_loss == current_value - total_invested
    IN IF total_invested = 0 THEN Exc("ZeroDivisionError")
       ELSE Ret([total_invested |-> total_invested,
                 current_value |-> current_value,
                 profit_loss |-> profit_loss,
                 profit_percent |-> RoundedPercent(profit_loss, total_invested),
                 up |-> profit_loss >= 0])

\* lines 356-362: the arithmetic, amounts in hundredths; the percentage as
\* the message shows it, in hundredths of a percent
CalculatorResult(shares, buy_price, current_price) ==
    LET total_invested == shares * buy_price
        current_value == shares * current_price
        profit_loss == current_value - total_invested
    IN IF total_invested = 0 THEN Exc("ZeroDivisionError")
       ELSE Ret([total_invested |-> total_invested,
                 current_value |-> current_value,
                 profit_loss |-> profit_loss,
                 profit_percent |-> RoundedPercent(profit_loss, total_invested),
                 up |-> profit_loss > 0])

\* lines 341-351: a bad input is answered with the format error, for a
\* good one the request leaves
CalculatorStart(t, p) ==
    IF p.raised THEN Answer(t, FormatError, "clear")
    ELSE Request([t EXCEPT !.ticker = p.v.ticker, !.shares = p.v.shares,
                           !.buy_price = p.v.buy_price],
                 Upper(p.v.ticker), "c_fetch")

process_calculator(u, text) ==
    /\ Routed(u, text, "process_calculator")
    /\ tasks' = Spawn(CalculatorStart(NewTask(u, "process_calculator", text),
                                      CalculatorParse(text)))
    /\ UNCHANGED <<cap, env, phase, fsm, users, watchlist, shown, upserts, adds, probe>>

\* lines 351-386 from the arrival of the response: the `return` of the
\* not-found branch leaves the handler, every exception is answered with the
\* format error
CalculatorRender(t, c) ==
    IF c.raised THEN Answer(t, FormatError, "clear")
    ELSE Answer(t, Msg("calculator_result", Upper(t.ticker), c.v, <<>>), "clear")

CalculatorAnswer(t, r) ==
    IF r.raised THEN Answer(t, FormatError, "clear")
    ELSE IF Falsy(r.v)
    THEN Answer([t EXCEPT !.data = r.v], Msg("calculator_nodata", <<>>, <<>>, <<>>), "last")
    ELSE CalculatorRender([t EXCEPT !.data = r.v],
                          CalculatorResult(t.shares, t.buy_price, r.v.price))

process_calculator_quote(t, net) ==
    /\ t \in Running /\ t.pc = "c_fetch"
    /\ tasks' = Replace(t, CalculatorAnswer(t, get_stock_data(Upper(t.ticker), ApiKey, net)))
    /\ UNCHANGED <<cap, env, phase, fsm, users, watchlist, shown, upserts, adds, probe, prompted>>

\* line 388: state.clear()
process_calculator_clear(t) ==
    /\ t \in Running /\ t.pc = "clear" /\ t.handler = "process_calculator"
    /\ fsm' = [fsm EXCEPT ![t.user] = Idle]
    /\ tasks' = Drop(t)
    /\ UNCHANGED <<cap, env, phase, users, watchlist, shown, upserts, adds, probe, prompted>>

-----------------------------------------------------------------------------
(* The callback-query handlers.  A user can only press a button that a    *)
(* message of the bot has shown.                                          *)

RoutedCallback(u, data, handler) ==
    CanDispatch /\ data \in shown[u] /\ RouteCallback(data) = handler

analyze_callback(u, data) ==
    /\ RoutedCallback(u, data, "analyze_callback")
    /\ tasks' = Spawn(EnterAnalysis(NewTask(u, "analyze_callback", data), SplitOn(data)[2]))
    /\ UNCHANGED <<cap, env, phase, fsm, users, watchlist, shown, upserts, adds, probe, prompted>>

add_watchlist_callback(u, data) ==
    /\ RoutedCallback(u, data, "add_watchlist_callback")
    /\ Len(watchlist) < MaxWatch
    /\ LET ticker == SplitOn(data)[3] IN
       /\ watchlist' = add_to_watchlist(watchlist, u, ticker)
       /\ adds' = Append(adds, <<u, ticker>>)
       /\ tasks' = Spawn(Answer([NewTask(u, "add_watchlist_callback", data)
                                    EXCEPT !.ticker = ticker],
                                Msg("added", ticker, <<>>, <<>>), "last"))
    /\ UNCHANGED <<cap, env, phase, fsm, users, shown, upserts, probe, prompted>>

overview_callback(u, data) ==
    /\ RoutedCallback(u, data, "overview_callback")
    /\ tasks' = Spawn(EnterOverview(NewTask(u, "overview_callback", data), SplitOn(data)[2]))
    /\ UNCHANGED <<cap, env, phase, fsm, users, watchlist, shown, upserts, adds, probe, prompted>>

\* lines 319 and 331: the flow has returned, callback.answer()
callback_answer(t) ==
    /\ t \in Running /\ t.pc = "cb_answer"
    /\ tasks' = Replace(t, Answer(t, Msg("callback_answer", <<>>, <<>>, <<>>), "last"))
    /\ UNCHANGED <<cap, env, phase, fsm, users, watchlist, shown, upserts, adds, probe, prompted>>

-----------------------------------------------------------------------------
(* The bot: one user whose updates are handled one at a time *)

InitBot(environments, userIds, inFlight) ==
    /\ env \in environments
    /\ phase = "boot"
    /\ fsm = [u \in userIds |-> Idle]
    /\ users = {}
    /\ watchlist = <<>>
    /\ tasks = EmptyBag
    /\ cap = inFlight
    /\ shown = [u \in userIds |-> {}]
    /\ upserts = [u \in userIds |-> [called |-> FALSE, username |-> "", first_name |-> "",
                                     before |-> {}]]
    /\ adds = <<>>
    /\ probe = None
    /\ prompted = [u \in userIds |-> Idle]

Environments == [BOT_TOKEN : {NoneStr, "token"}, ALPHA_VANTAGE_API_KEY : {NoneStr, "key"}]
Configured == {[BOT_TOKEN |-> "token", ALPHA_VANTAGE_API_KEY |-> "key"]}

Init == InitBot(Environments, Users, 1)

BotTexts == Commands \cup Labels \cup {TxtTicker, TxtCalc, TxtCalcBadNumber, TxtHelp}

\* the buttons the user of this specification presses
Presses == {PfxAnalyze \o top_stocks[1],
            PfxAddWatchlist \o top_stocks[1], PfxOverview \o top_stocks[1]}

\* an inbound text message
Message(u, text) ==
    \/ \E profile \in Profiles : start_handler(u, text, profile[1], profile[2])
    \/ stock_command(u, text)
    \/ overview_command(u, text)
    \/ watchlist_command(u, text)
    \/ calculator_command(u, text)
    \/ tips_command(u, text)
    \/ analyze_stock_button(u, text)
    \/ company_overview_button(u, text)
    \/ my_watchlist_button(u, text)
    \/ calculator_button(u, text)
    \/ tips_button(u, text)
    \/ top_stocks_button(u, text)
    \/ process_ticker(u, text)
    \/ process_calculator(u, text)

\* a press of an inline button
Callback(u, data) ==
    \/ analyze_callback(u, data)
    \/ add_watchlist_callback(u, data)
    \/ overview_callback(u, data)

\* a suspended task resumes
Resume(t) ==
    \/ send_stock_analysis_fetch(t)
    \/ \E net \in QuoteNets : send_stock_analysis_render(t, net)
    \/ send_company_overview_fetch(t)
    \/ \E net \in OverviewNets : send_company_overview_render(t, net)
    \/ \E net \in QuoteNets : watchlist_quote(t, net)
    \/ \E net \in QuoteNets : process_calculator_quote(t, net)
    \/ calculator_set_state(t)
    \/ ticker_set_state(t)
    \/ process_ticker_clear(t)
    \/ process_calculator_clear(t)
    \/ callback_answer(t)
    \/ Finish(t)

Next ==
    \/ Start
    \/ \E u \in Users, text \in BotTexts : Message(u, text)
    \/ \E u \in Users : \E data \in shown[u] \cap Presses : Callback(u, data)
    \/ \E t \in Running : Resume(t)

Spec == Init /\ [][Next]_vars

-----------------------------------------------------------------------------
(* The ticker conversation with updates of one user handled concurrently *)

InitRace == InitBot(Configured, Users, MaxTasks)

RaceTexts == {BtnAnalyze, TxtTicker, TxtHelp, TxtStockArg, TxtWatchlist}

NextRace ==
    \/ Start
    \/ \E u \in Users, text \in RaceTexts :
          \/ analyze_stock_button(u, text)
          \/ process_ticker(u, text)
          \/ stock_command(u, text)
          \/ watchlist_command(u, text)
    \/ \E t \in Running :
          \/ send_stock_analysis_fetch(t)
          \/ \E net \in QuoteNets : send_stock_analysis_render(t, net)
          \/ ticker_set_state(t)
          \/ process_ticker_clear(t)
          \/ Finish(t)

SpecRace == InitRace /\ [][NextRace]_vars

-----------------------------------------------------------------------------
(* The calculator conversation *)

InitCalc == InitBot(Configured, Users, MaxTasks)

CalcTexts == {TxtCalculator, BtnCalculator, TxtHelp} \cup CalculatorTexts

NextCalc ==
    \/ Start
    \/ \E u \in Users, text \in CalcTexts :
          \/ calculator_command(u, text)
          \/ calculator_button(u, text)
          \/ process_calculator(u, text)
    \/ \E t \in Running :
          \/ \E net \in CalculatorNets : process_calculator_quote(t, net)
          \/ calculator_set_state(t)
          \/ process_calculator_clear(t)
          \/ Finish(t)

SpecCalc == InitCalc /\ [][NextCalc]_vars

-----------------------------------------------------------------------------
(* The watch-list: two tickers are analysed, added and rendered *)

InitWatch == InitBot(Configured, Users, MaxTasks)

WatchTexts == {TxtStockArg, TxtStockTsla, TxtWatchlist}
WatchPresses == {PfxAddWatchlist \o Upper(Split(TxtStockArg)[2]),
                 PfxAddWatchlist \o Upper(Split(TxtStockTsla)[2])}

\* a quote, or no answer from the provider
WatchNets == {NetError, NetJson("Global Quote" :> GoodQuote)}

NextWatch ==
    \/ Start
    \/ \E u \in Users, text \in WatchTexts :
          \/ stock_command(u, text)
          \/ watchlist_command(u, text)
    \/ \E u \in Users : \E data \in shown[u] \cap WatchPresses :
          add_watchlist_callback(u, data)
    \/ \E t \in Running :
          \/ send_stock_analysis_fetch(t)
          \/ \E net \in WatchNets : send_stock_analysis_render(t, net)
          \/ \E net \in WatchNets : watchlist_quote(t, net)
          \/ Finish(t)

SpecWatch == InitWatch /\ [][NextWatch]_vars

-----------------------------------------------------------------------------
(* The direct commands /stock and /overview, descriptions of every length *)

\* a description of n characters; those past the slice bound are "#"
DescriptionOf(n) ==
    [i \in 1..n |-> IF i > DescriptionLimit THEN "#" ELSE LowerLetters[(i % 26) + 1]]

OverviewOf(n) ==
    NetJson("Symbol" :> <<"A", "A", "P", "L">> @@ "Description" :> DescriptionOf(n))

DirectOverviewNets ==
    OverviewNets \cup {NetJson("Symbol" :> <<"A", "A", "P", "L">>)}
        \cup {OverviewOf(n) : n \in (DescriptionLimit - 1)..MaxDesc}

InitDirect == InitBot(Configured, Users, MaxTasks)

DirectTexts == {TxtStock, TxtStockArg, TxtOverview, TxtOverviewArg}

NextDirect ==
    \/ Start
    \/ \E u \in Users, text \in DirectTexts :
          \/ stock_command(u, text)
          \/ overview_command(u, text)
    \/ \E t \in Running :
          \/ send_stock_analysis_fetch(t)
          \/ \E net \in QuoteNets : send_stock_analysis_render(t, net)
          \/ send_company_overview_fetch(t)
          \/ \E net \in DirectOverviewNets : send_company_overview_render(t, net)
          \/ Finish(t)

SpecDirect == InitDirect /\ [][NextDirect]_vars

-----------------------------------------------------------------------------
(* Two users whose updates interleave *)

TwoUsers == {1, 2}

InitTwo == InitBot(Configured, TwoUsers, MaxTasks)

TwoTexts == {BtnAnalyze, TxtTicker}

NextTwo ==
    \/ Start
    \/ \E u \in TwoUsers, text \in TwoTexts :
          \/ analyze_stock_button(u, text)
          \/ process_ticker(u, text)
    \/ \E u \in TwoUsers : \E data \in shown[u] \cap WatchPresses :
          add_watchlist_callback(u, data)
    \/ \E t \in Running :
          \/ send_stock_analysis_fetch(t)
          \/ \E net \in WatchNets : send_stock_analysis_render(t, net)
          \/ ticker_set_state(t)
          \/ process_ticker_clear(t)
          \/ Finish(t)

SpecTwo == InitTwo /\ [][NextTwo]_vars

-----------------------------------------------------------------------------
(* The inline buttons of the analyses of two tickers, pressed by the user *)

InitButtons == InitBot(Configured, Users, 1)

ButtonTexts == {BtnAnalyze, TxtTicker, TxtTickerUnderscore}

NextButtons ==
    \/ Start
    \/ \E u \in Users, text \in ButtonTexts :
          \/ analyze_stock_button(u, text)
          \/ process_ticker(u, text)
    \/ \E u \in Users : \E data \in shown[u] :
          \/ add_watchlist_callback(u, data)
          \/ overview_callback(u, data)
    \/ \E t \in Running :
          \/ send_stock_analysis_fetch(t)
          \/ \E net \in WatchNets : send_stock_analysis_render(t, net)
          \/ send_company_overview_fetch(t)
          \/ \E net \in OverviewNets : send_company_overview_render(t, net)
          \/ ticker_set_state(t)
          \/ process_ticker_clear(t)
          \/ callback_answer(t)
          \/ Finish(t)

SpecButtons == InitButtons /\ [][NextButtons]_vars

-----------------------------------------------------------------------------
(* The overview menu button as the only prompt, one handler at a time *)

InitPrompt == InitBot(Configured, Users, 1)

PromptTexts == {BtnOverview, TxtTicker, TxtTickerTsla, TxtHelp}

NextPrompt ==
    \/ Start
    \/ \E u \in Users, text \in PromptTexts :
          \/ company_overview_button(u, text)
          \/ process_ticker(u, text)
    \/ \E u \in Users : \E data \in shown[u] : overview_callback(u, data)
    \/ \E t \in Running :
          \/ send_stock_analysis_fetch(t)
          \/ \E net \in WatchNets : send_stock_analysis_render(t, net)
          \/ send_company_overview_fetch(t)
          \/ \E net \in OverviewNets : send_company_overview_render(t, net)
          \/ ticker_set_state(t)
          \/ process_ticker_clear(t)
          \/ callback_answer(t)
          \/ Finish(t)

SpecPrompt == InitPrompt /\ [][NextPrompt]_vars

-----------------------------------------------------------------------------
(* The quote client called once on every provider answer of a bounded set *)

FloatLabels == {"02. open", "03. high", "04. low", "05. price",
                "08. previous close", "09. change"}
NumberLabels == FloatLabels \cup {"06. volume"}
QuoteLabels == NumberLabels \cup {"01. symbol", "10. change percent"}

Missing == <<"<missing>">>
ValInt == <<"1", "2", "0", "0">>
ValDecimal == <<"1", "6", "0", ".", "5", "0">>
ValText == <<"n", "/", "a">>

\* per field: it is missing, or holds one of these strings
FloatChoices == {Missing, ValDecimal, ValText}
VolumeChoices == {Missing, ValInt, ValDecimal, ValText}
TextChoices == {Missing, ValText}

\* the "Global Quote" object of a choice for every label
QuoteOf(c) == [l \in {k \in QuoteLabels : c[k] # Missing} |-> c[l]]

QuoteProbe(ticker, net) ==
    [ticker |-> ticker, net |-> net, out |-> get_stock_data(ticker, ApiKey, net)]

fetchQuote(ticker, floats, volume, symbol, percent) ==
    /\ probe' = QuoteProbe(ticker,
                           NetJson("Global Quote" :>
                                   QuoteOf(floats @@ "06. volume" :> volume @@
                                           "01. symbol" :> symbol @@
                                           "10. change percent" :> percent)))
    /\ UNCHANGED <<cap, env, phase, fsm, users, watchlist, tasks, shown, upserts, adds, prompted>>

fetchQuoteFailed(ticker, net) ==
    /\ probe' = QuoteProbe(ticker, net)
    /\ UNCHANGED <<cap, env, phase, fsm, users, watchlist, tasks, shown, upserts, adds, prompted>>

InitQuote == InitBot(Environments, Users, 1)

NextQuote ==
    \/ /\ probe = None
       /\ \E floats \in [FloatLabels -> FloatChoices], volume \in VolumeChoices,
             symbol \in TextChoices, percent \in TextChoices :
             fetchQuote(top_stocks[1], floats, volume, symbol, percent)
    \/ /\ probe = None
       /\ \E net \in {NetError, NetMalformed, NetJson(RateLimited)} :
             fetchQuoteFailed(top_stocks[1], net)

SpecQuote == InitQuote /\ [][NextQuote]_vars

-----------------------------------------------------------------------------
(* The user store called directly, by two users *)

\* at most this many add_to_watchlist calls are made
MaxCalls == 3

StoreUsers == {1, 2}
StoreTickers == {<<"a", "a", "p", "l">>, <<"T", "s", "l", "a">>}

upsertUser(user_id, username, first_name) ==
    /\ users' = save_user(users, user_id, username, first_name).tbl
    /\ upserts' = [upserts EXCEPT ![user_id] =
                     [called |-> TRUE, username |-> username, first_name |-> first_name,
                      before |-> {r \in users : r.user_id = user_id}]]
    /\ UNCHANGED <<cap, env, phase, fsm, watchlist, tasks, shown, adds, probe, prompted>>

addToWatchlist(user_id, ticker) ==
    /\ Len(adds) < MaxCalls
    /\ watchlist' = add_to_watchlist(watchlist, user_id, ticker)
    /\ adds' = Append(adds, <<user_id, ticker>>)
    /\ UNCHANGED <<cap, env, phase, fsm, users, tasks, shown, upserts, probe, prompted>>

InitStore == InitBot(Configured, StoreUsers, 1)

NextStore ==
    \/ \E u \in StoreUsers, username \in {"", "ann"}, first_name \in FirstNames :
          upsertUser(u, username, first_name)
    \/ \E u \in StoreUsers, ticker \in StoreTickers : addToWatchlist(u, ticker)

SpecStore == InitStore /\ [][NextStore]_vars


-----------------------------------------------------------------------------
(* Properties of the user store (SpecStore) *)

\* the tickers, upper-cased, of the add_to_watchlist calls made for a user, in call order
CallsOf(calls, user_id) == SelectSeq(calls, LAMBDA c : c[1] = user_id)
TickersOf(calls, user_id) ==
    [i \in 1..Len(CallsOf(calls, user_id)) |-> Upper(CallsOf(calls, user_id)[i][2])]

\* C7: after any sequence of add_to_watchlist calls, get_watchlist(u) is exactly
\* the upper-cased tickers of the calls made for u, in call order, one element
\* per call (duplicates kept); it is the empty sequence when no call was made
\* for u, and the calls for other users do not show in it.
C7_WatchlistIsCallsInOrder ==
    \A u \in StoreUsers :
        /\ get_watchlist(watchlist, u) = TickersOf(adds, u)
        /\ Len(get_watchlist(watchlist, u)) = Cardinality({i \in 1..Len(adds) : adds[i][1] = u})
        /\ (\A i \in 1..Len(adds) : adds[i][1] # u) => get_watchlist(watchlist, u) = <<>>

\* user 1 added "aapl", user 2 added "Tsla", user 1 added "aapl" again: user 1
\* reads the duplicate pair, user 2 one ticker
C7_Witness ==
    /\ adds = << <<1, <<"a", "a", "p", "l">> >>, <<2, <<"T", "s", "l", "a">> >>,
                 <<1, <<"a", "a", "p", "l">> >> >>
    /\ get_watchlist(watchlist, 1) = << <<"A", "A", "P", "L">>, <<"A", "A", "P", "L">> >>
    /\ get_watchlist(watchlist, 2) = << <<"T", "S", "L", "A">> >>

\* C8: after any sequence of save_user calls the users table holds at most one
\* row per user id, the row of an id carries the username and the first name
\* of the latest call for that id (no row before the first call), and a
\* further call for any id, existing or not, does not fail.
C8_OneRowPerUserLatestWins ==
    \A u \in StoreUsers :
        /\ Cardinality({r \in users : r.user_id = u}) <= 1
        /\ upserts[u].called =>
              {r \in users : r.user_id = u} =
                  {UserRow(u, upserts[u].username, upserts[u].first_name)}
        /\ ~upserts[u].called => {r \in users : r.user_id = u} = {}
        /\ \A username \in {"", "ann"}, first_name \in FirstNames :
              ~save_user(users, u, username, first_name).raised

\* user 1 was saved as ("", "Ann"), then as ("ann", "Anna"), next to a row of user 2
C8_Witness ==
    /\ upserts[1] = [called |-> TRUE, username |-> "ann", first_name |-> "Anna",
                     before |-> {UserRow(1, "", "Ann")}]
    /\ UserRow(2, "", "Ann") \in users
    /\ UserRow(1, "ann", "Anna") \in users
    /\ Cardinality(users) = 2

-----------------------------------------------------------------------------
(* Properties of the quote client (SpecQuote) *)

QuoteFields == {"symbol", "price", "change", "change_percent", "volume",
                "high", "low", "open", "previous_close"}

\* the record field filled from each numeric label of the provider
FieldOf ==
    ("02. open" :> "open" @@ "03. high" :> "high" @@ "04. low" :> "low" @@
     "05. price" :> "price" @@ "06. volume" :> "volume" @@
     "08. previous close" :> "previous_close" @@ "09. change" :> "change")

\* the provider answered with a document that has the "Global Quote" key
HasQuote(p) == p.net.kind = "json" /\ "Global Quote" \in DOMAIN p.net.data
SourceQuote(p) == p.net.data["Global Quote"]
MissingIn(p, label) == label \notin DOMAIN SourceQuote(p)

\* what holds of every call: nothing is raised, and the value is None or a
\* record of the nine fields in which a missing numeric source field is 0
\* and a missing change percent is "0%"
QuoteOutcome(p) ==
    /\ ~p.out.raised
    /\ \/ p.out.v = None
       \/ /\ HasQuote(p)
          /\ DOMAIN p.out.v = QuoteFields
          /\ \A l \in NumberLabels : MissingIn(p, l) => p.out.v[FieldOf[l]] = 0
          /\ MissingIn(p, "10. change percent") => p.out.v.change_percent = <<"0", "%">>
    /\ ~HasQuote(p) => p.out.v = None

\* C5 as stated: get_stock_data never raises and returns None or a record of
\* the nine fields in which every missing source field, the symbol included,
\* holds one of the defaults 0 / "0%".
C5_MissingFieldsDefaultToZero ==
    probe # None =>
        /\ QuoteOutcome(probe)
        /\ (probe.out.v # None /\ MissingIn(probe, "01. symbol")) =>
               probe.out.v.symbol \in {<<"0">>, <<"0", "%">>}

\* C5 (amended): get_stock_data never raises, for every provider outcome; it
\* returns None, or a record of the nine fields in which a missing numeric
\* source field is 0, a missing change percent is "0%" and a missing symbol
\* is the empty string. Transport errors, malformed bodies and bodies
\* without "Global Quote" give None.
C5_NeverRaisesRecordPopulated ==
    probe # None =>
        /\ QuoteOutcome(probe)
        /\ (probe.out.v # None /\ MissingIn(probe, "01. symbol")) =>
               probe.out.v.symbol = <<>>

\* a "Global Quote" object with no field at all gave a record of defaults
C5_Witness ==
    /\ probe # None
    /\ HasQuote(probe)
    /\ SourceQuote(probe) = EmptyQuote
    /\ probe.out = Ret([symbol |-> <<>>, price |-> 0, change |-> 0,
                        change_percent |-> <<"0", "%">>, volume |-> 0, high |-> 0,
                        low |-> 0, open |-> 0, previous_close |-> 0])

-----------------------------------------------------------------------------
(* Properties of the conversation state *)

\* the handlers of text messages
MessageHandlers == {RouteTable[st][text] : st \in States, text \in Texts} \ {"unhandled"}

\* this step is the end of task t: its handler has returned
Completes(t) == t \in Running /\ tasks' = Drop(t)

\* send_stock_analysis has sent its two messages for task t
FlowFinished(t) ==
    /\ Len(t.out) = 2
    /\ t.out[1].kind = "ack"
    /\ t.out[2].kind \in {"analysis", "nodata"}
    /\ t.reqs = <<t.ticker>>

\* task t of process_ticker waits in send_stock_analysis
InFlow(t) == t.handler = "process_ticker" /\ t.pc \in {"ack", "fetch"}

\* C1: for every text message (free text, slash command or
\* menu label) dispatched while its sender's state is AwaitingTicker, the
\* sender's state is Idle at the step that completes the handling.
C1_AwaitingTickerEndsIdle ==
    [][\A t \in Running :
          (t.handler \in MessageHandlers /\ t.st = AwaitingTicker /\ Completes(t))
              => fsm'[t.user] = Idle]_vars

\* C4: handling of one user's texts is not serialized.  The state
\* leaves AwaitingTicker for Idle only in the step that ends a process_ticker
\* task whose flow has finished; and a text that is no command and no label,
\* dispatched while the state is AwaitingTicker and an earlier process_ticker
\* task of the same user still waits in its flow, is dispatched to
\* process_ticker in state AwaitingTicker and enters the flow too.
C4_StateClearedOnlyAfterFlow ==
    [][/\ \A u \in Users :
             (fsm[u] = AwaitingTicker /\ fsm'[u] = Idle) =>
                 \E t \in Running :
                     /\ t.user = u /\ t.handler = "process_ticker" /\ t.pc = "clear"
                     /\ FlowFinished(t) /\ Completes(t)
       /\ \A t1 \in Running :
             (InFlow(t1) /\ fsm[t1.user] = AwaitingTicker /\ Running' # Running
                 /\ BagCardinality(tasks') > BagCardinality(tasks)) =>
                 \A t2 \in Running' \ Running :
                     (t2.user = t1.user /\ t2.text \in FreeTexts) =>
                         /\ t2.handler = "process_ticker" /\ t2.st = AwaitingTicker
                         /\ t2.pc = "ack" /\ t2.ticker = Strip(Upper(t2.text))
                         /\ fsm'[t2.user] = AwaitingTicker]_vars

\* two texts of one user, both dispatched in AwaitingTicker, both inside the
\* flow: the first waits for its quote, the state is still AwaitingTicker
C4_Witness ==
    \E t1, t2 \in Running :
        /\ t1.user = t2.user /\ t1.text = TxtTicker /\ t2.text = TxtHelp
        /\ t1.handler = "process_ticker" /\ t2.handler = "process_ticker"
        /\ t1.st = AwaitingTicker /\ t2.st = AwaitingTicker
        /\ t1.pc = "fetch" /\ t2.pc \in {"ack", "fetch"}
        /\ fsm[t1.user] = AwaitingTicker

-----------------------------------------------------------------------------
(* Properties of the calculator conversation (SpecCalc) *)

\* the input has three tokens that parse and an invested amount of zero
ZeroInvested(p) == ~p.raised /\ p.v.shares * p.v.buy_price = 0

\* task t has sent its answer to the input
Answered(t) == t.pc \in {"clear", "last"}

\* C2: for every text dispatched to process_calculator, that is in state
\* AwaitingCalculatorInput, whatever its tokens and whatever the quote fetch
\* returned, the sender's state is Idle at the step that completes the
\* handling.
C2_CalculatorEndsIdle ==
    [][\A t \in Running :
          (t.handler = "process_calculator" /\ Completes(t)) => fsm'[t.user] = Idle]_vars

\* C3: a three-token calculator input whose invested amount is zero is
\* answered with the format error and with nothing else, whatever the quote
\* fetch returned.
C3_ZeroInvestedIsFormatError ==
    \A t \in Running :
        (t.handler = "process_calculator" /\ Answered(t)
            /\ ZeroInvested(CalculatorParse(t.text))) => t.out = <<FormatError>>

-----------------------------------------------------------------------------
(* Properties of the watch-list render (SpecWatch) *)

WatchlistHandlers == {"watchlist_command", "my_watchlist_button"}

\* the line of the response for an entry and the value its fetch returned
LineMatches(line, ticker, stock_data) ==
    /\ line.ticker = ticker
    /\ stock_data # None =>
          /\ line.kind = "data"
          /\ line.price = stock_data.price
          /\ line.change_percent = stock_data.change_percent
    /\ stock_data = None => line.kind = "unavailable"

\* C6: a watch-list render over a non-empty list requests one quote per
\* stored entry in stored order and, once every response is in, sends a
\* single message with exactly one line per entry in that order: price and
\* percent change where the fetch returned a record, "data unavailable"
\* where it returned None; a failed fetch does not end the loop.
C6_OneLinePerEntryInOrder ==
    \A t \in Running :
        (t.handler \in WatchlistHandlers /\ t.wl # <<>>) =>
            /\ t.reqs = SubSeq(t.wl, 1, t.i)
            /\ Len(t.got) = Len(t.lines)
            /\ t.pc = "w_fetch" => (Len(t.got) = t.i - 1 /\ t.out = <<>>)
            /\ t.pc = "last" =>
                  /\ t.reqs = t.wl
                  /\ Len(t.out) = 1
                  /\ t.out[1].kind = "watchlist"
                  /\ Len(t.out[1].body) = Len(t.wl)
                  /\ \A i \in 1..Len(t.wl) :
                        LineMatches(t.out[1].body[i], t.wl[i], t.got[i])

\* the list <<"AAPL", "TSLA">> rendered with the first fetch a record and the
\* second None: two lines, one with data and one unavailable
C6_Witness ==
    \E t \in Running :
        /\ t.handler \in WatchlistHandlers /\ t.pc = "last"
        /\ t.wl = <<Upper(Split(TxtStockArg)[2]), Upper(Split(TxtStockTsla)[2])>>
        /\ t.wl = get_watchlist(watchlist, t.user)
        /\ t.got[1] # None /\ t.got[2] = None
        /\ Len(t.out) = 1
        /\ t.out[1].body[1].kind = "data" /\ t.out[1].body[2].kind = "unavailable"

-----------------------------------------------------------------------------
(* Properties of start-up and of the users table (Spec) *)

\* C9: when BOT_TOKEN or ALPHA_VANTAGE_API_KEY is absent from the
\* environment the process does not start: it is never polling and no
\* handler ever runs; this for each of the two variables alone.
C9_MissingCredentialStopsStart ==
    (env.BOT_TOKEN = NoneStr \/ env.ALPHA_VANTAGE_API_KEY = NoneStr) =>
        (phase # "polling" /\ tasks = EmptyBag)

\* C10: once an inbound event of a user (command, menu label, free text or
\* button press) has been handled, a row for that user is in the users
\* table.  Rows are never deleted, so a row present after a user's first
\* event is present after each of the user's events.
C10_RowAfterHandledEvent ==
    [][\A t \in Running : Completes(t) => \E r \in users' : r.user_id = t.user]_vars

-----------------------------------------------------------------------------
(* Properties of the quote-analysis flow (SpecRace) *)

\* task t has entered send_stock_analysis
RunsAnalysis(t) == Len(t.out) > 0 /\ t.out[1].kind = "ack"

\* the pcs of a task whose flow has returned to its caller
AfterFlow == {"clear", "cb_answer", "last"}

\* the messages and requests of the flow at each of its positions
AnalysisOrder(t) ==
    /\ t.pc = "ack" => (Len(t.out) = 1 /\ t.reqs = <<>>)
    /\ t.pc = "fetch" => (Len(t.out) = 1 /\ t.reqs = <<t.ticker>>)
    /\ t.pc \in AfterFlow =>
          /\ Len(t.out) = 2
          /\ t.reqs = <<t.ticker>>
          /\ t.out[2].ticker = t.ticker
          /\ t.data = None =>
                (t.out[2].kind = "nodata" /\ t.out[2].buttons = <<>>)
          /\ t.data # None =>
                /\ t.out[2].kind = "analysis"
                /\ t.out[2].body.data = t.data
                /\ t.out[2].buttons =
                      <<PfxAddWatchlist \o t.ticker, PfxOverview \o t.ticker>>

\* this step resumes a task that waits inside the flow
FlowStep == \E t \in Running : t.pc \in {"ack", "fetch"} /\ t \notin Running'

\* C11: every run of send_stock_analysis for a ticker sends the
\* acknowledgement, then issues exactly one quote request for that ticker,
\* then sends exactly one final message: the no-data message without buttons
\* when the fetch returned None, otherwise the analysis with exactly the two
\* buttons add_watchlist_<ticker> and overview_<ticker>.  The steps of the
\* flow write neither the tables nor the conversation state.
C11_AckFetchFinal ==
    /\ [](\A t \in Running : RunsAnalysis(t) => AnalysisOrder(t))
    /\ [][FlowStep => UNCHANGED <<fsm, users, watchlist>>]_vars

\* one run ended with the analysis and its two buttons, one with no data
C11_Witness ==
    \E t1, t2 \in Running :
        /\ RunsAnalysis(t1) /\ t1.pc \in AfterFlow /\ t1.out[2].kind = "analysis"
        /\ Len(t1.out[2].buttons) = 2
        /\ RunsAnalysis(t2) /\ t2.pc \in AfterFlow /\ t2.out[2].kind = "nodata"

-----------------------------------------------------------------------------
(* Properties of the calculator result (SpecCalc) *)

\* task t has sent the result of the calculation
HasResult(t) ==
    t.handler = "process_calculator" /\ Len(t.out) = 1 /\ t.out[1].kind = "calculator_result"

\* C12: for every accepted calculator input (ticker, shares, buy price) with
\* shares * buy price # 0 and a fetched price p, the result shows
\* invested = shares * buy price, current value = shares * p, profit/loss =
\* current value - invested, the percentage profit/loss / invested * 100 to
\* the nearest hundredth, and the "up" indicator exactly when profit/loss > 0
\* ("down" for a profit/loss of zero).
C12_CalculatorArithmetic ==
    \A t \in Running :
        HasResult(t) =>
            LET res == t.out[1].body
                invested == t.shares * t.buy_price
                exact == (t.shares * t.data.price - invested) * 10000
            IN /\ invested # 0
               /\ res.total_invested = invested
               /\ res.current_value = t.shares * t.data.price
               /\ res.profit_loss = res.current_value - res.total_invested
               /\ 2 * (res.profit_percent * invested - exact) <= (IF invested < 0 THEN -invested ELSE invested)
               /\ 2 * (exact - res.profit_percent * invested) <= (IF invested < 0 THEN -invested ELSE invested)
               /\ res.up = (res.profit_loss > 0)

\* "aapl 10 150.50" at a price of 160.00 gave 1505.00, 1600.00, 95.00 and
\* 6.31 percent, up; "AAPL 3 160" at the same price gave 0.00 and down
C12_Witness ==
    \E t1, t2 \in Running :
        /\ HasResult(t1) /\ t1.text = TxtCalc /\ t1.data.price = 16000
        /\ t1.out[1].body = [total_invested |-> 150500, current_value |-> 160000,
                             profit_loss |-> 9500, profit_percent |-> 631, up |-> TRUE]
        /\ HasResult(t2) /\ t2.text = TxtCalcEven
        /\ t2.out[1].body.profit_loss = 0 /\ ~t2.out[1].body.up

-----------------------------------------------------------------------------
(* Properties of the overview flow and of the direct commands (SpecDirect) *)

\* task t has rendered the overview of a document with a description
HasOverview(t) ==
    /\ t.out # <<>> /\ t.out[Len(t.out)].kind = "overview"
    /\ t.data # None /\ "Description" \in DOMAIN t.data

\* C13: when the fetched overview has a description of more than 500
\* characters, the rendered description is exactly its first 500 characters
\* followed by "...", and no character past position 500 is in the output.
C13_DescriptionTruncated ==
    \A t \in Running :
        (HasOverview(t) /\ Len(t.data["Description"]) > 500) =>
            LET shown_text == t.out[Len(t.out)].body
                desc == t.data["Description"]
            IN /\ Len(shown_text) = 503
               /\ \A i \in 1..500 : shown_text[i] = desc[i]
               /\ SubSeq(shown_text, 501, 503) = <<".", ".", ".">>
               /\ \A i \in 1..Len(shown_text) : shown_text[i] # "#"

\* a description of 502 characters was rendered
C13_Witness ==
    \E t \in Running :
        /\ HasOverview(t) /\ Len(t.data["Description"]) = 502
        /\ t.data["Description"][501] = "#"
        /\ Len(t.out[Len(t.out)].body) = 503


DirectHandlers == {"stock_command", "overview_command"}

\* the usage hint and the acknowledgement of each direct command
UsageOf(handler) == IF handler = "stock_command" THEN "usage_stock" ELSE "usage_overview"
AckOf(handler) == IF handler = "stock_command" THEN "ack" ELSE "overview_ack"

\* what a task of a direct command has sent and requested, by the tokens of its text
DirectOutcome(t, args) ==
    /\ Len(args) < 2 =>
          /\ t.pc = "last" /\ t.reqs = <<>>
          /\ Len(t.out) = 1 /\ t.out[1].kind = UsageOf(t.handler)
    /\ Len(args) >= 2 =>
          /\ t.ticker = Upper(args[2])
          /\ t.out[1].kind = AckOf(t.handler)
          /\ \A i \in 1..Len(t.reqs) : t.reqs[i] = Upper(args[2])

\* this step starts, resumes or ends a task of a direct command
DirectStep ==
    \E t \in (Running' \ Running) \cup (Running \ Running') : t.handler \in DirectHandlers

-----------------------------------------------------------------------------
(* Isolation of users (SpecTwo) *)

\* the tasks this step starts, resumes or ends
Stepped == (Running' \ Running) \cup (Running \ Running')

RowsOf(tbl, user_id) == SelectSeq(tbl, LAMBDA r : r.user_id = user_id)

\* C15: under every interleaving, a step of the handling of an event of
\* user A leaves the conversation state of every other user B and the
\* watch-list rows of B as they were; and an event of B is dispatched with
\* the state B's own events left.
C15_UsersIsolated ==
    [][/\ \A t \in Stepped : \A b \in TwoUsers \ {t.user} :
             /\ fsm'[b] = fsm[b]
             /\ RowsOf(watchlist', b) = RowsOf(watchlist, b)
       /\ \A t \in Running' \ Running :
             BagCardinality(tasks') > BagCardinality(tasks) => t.st = fsm[t.user]]_vars

\* user 2 went through the ticker conversation and added AAPL to its list
\* while user 1 still waits for a ticker with a submission in flight
C15_Witness ==
    /\ fsm[1] = AwaitingTicker /\ fsm[2] = Idle
    /\ get_watchlist(watchlist, 2) = <<top_stocks[1]>>
    /\ get_watchlist(watchlist, 1) = <<>>
    /\ \E t \in Running : t.user = 1 /\ t.handler = "process_ticker" /\ t.pc = "fetch"

-----------------------------------------------------------------------------
(* Properties of the inline buttons (SpecButtons) *)

\* the ticker a button was made for: its payload without the action prefix
PayloadTicker(data, prefix) == SubSeq(data, Len(prefix) + 1, Len(data))

\* C16: the payload of a button gives back the ticker of its analysis, also
\* for a ticker with "_" in it: a press of "add to watchlist" appends exactly
\* that ticker to the presser's watch-list, a press of "show overview" runs
\* the overview flow for exactly that ticker.
C16_PayloadGivesTickerBack ==
    \A t \in Running :
        /\ t.handler = "add_watchlist_callback" =>
              /\ t.ticker = PayloadTicker(t.text, PfxAddWatchlist)
              /\ \E i \in 1..Len(watchlist) :
                    /\ watchlist[i].user_id = t.user
                    /\ watchlist[i].ticker = PayloadTicker(t.text, PfxAddWatchlist)
        /\ t.handler = "overview_callback" =>
              t.ticker = PayloadTicker(t.text, PfxOverview)

-----------------------------------------------------------------------------
(* Properties of the overview prompt (SpecPrompt) *)

\* the task has sent a message of the overview flow or waits in that flow
InOverviewFlow(t) ==
    \/ t.pc \in {"o_ack", "o_fetch"}
    \/ \E k \in 1..Len(t.out) : t.out[k].kind \in {"overview_ack", "overview", "overview_nodata"}

\* the step completes the overview menu button's handler t
OverviewPrompted(t) == t.handler = "company_overview_button" /\ Completes(t)

\* the step dispatches a text that is neither a command nor a menu label
TextDispatched(t) == t \in Running' \ Running /\ t.text \in FreeTexts

\* C17: the overview menu button leaves the user in waiting_for_ticker, the
\* state of the analyze button, and nothing else is recorded; the text sent
\* next (not a command or a menu label, which have handlers of their own) is
\* handled by process_ticker, which runs the quote analysis: a quote request,
\* and no message or request of the overview flow.
C17_OverviewPromptRunsAnalysis ==
    /\ [][\A t \in Running : OverviewPrompted(t) =>
            /\ fsm'[t.user] = AwaitingTicker
            /\ UNCHANGED <<users, watchlist, shown>>]_vars
    /\ [][\A t \in Running' : (TextDispatched(t) /\ t.st = AwaitingTicker) =>
            t.handler = "process_ticker" /\ RunsAnalysis(t)]_vars
    /\ [](\A t \in Running : t.handler = "process_ticker" =>
            /\ ~InOverviewFlow(t)
            /\ Len(t.reqs) > 0 => (t.reqs = <<t.ticker>> /\ t.pc \in {"fetch", "clear"}))

\* the ticker sent after the overview prompt got the analysis of its quote
C17_Witness ==
    \E t \in Running :
        /\ t.handler = "process_ticker" /\ t.st = AwaitingTicker
        /\ t.pc = "clear" /\ Len(t.out) = 2 /\ t.out[2].kind = "analysis"

-----------------------------------------------------------------------------
(* Properties of the dispatch of text messages (Spec) *)

\* C18: while the bot polls, every text a user can send in the state the user
\* is in has a handler, and a text that is neither a command nor a menu label
\* sent in Idle is handled as a ticker.
C18_EveryTextHandled ==
    phase = "polling" =>
        \A u \in Users, text \in BotTexts :
            /\ RouteTable[fsm[u]][text] \in MessageHandlers
            /\ (fsm[u] = Idle /\ text \in FreeTexts) =>
                  RouteTable[fsm[u]][text] = "process_ticker"

-----------------------------------------------------------------------------
(* Properties of prompts under concurrent handlers (SpecRace) *)

\* C19: when no handler of a user is in flight and the last prompt sent to
\* the user has no later text of the user, the user's state is the one the
\* prompt asks for, also when an earlier process_ticker was suspended in its
\* fetch while the prompting event was dispatched.
C19_PromptNotOrphaned ==
    \A u \in Users :
        ({t \in Running : t.user = u} = {} /\ prompted[u] # Idle) =>
            fsm[u] = prompted[u]

-----------------------------------------------------------------------------
(* Properties of the handlers that send no prompt (Spec) *)

\* the handlers that prompt for a text, and the two that consume it
StateWriters ==
    {"analyze_stock_button", "company_overview_button", "calculator_command",
     "calculator_button", "process_ticker", "process_calculator"}

NonPrompting ==
    (MessageHandlers \cup {"analyze_callback", "add_watchlist_callback", "overview_callback"})
        \ StateWriters

\* C20: no step of a handler that sends no prompt (/start, /stock, /overview,
\* /watchlist, /tips, the watch-list, tips and top-stocks labels, the three
\* inline-button callbacks) changes the conversation state of any user,
\* whatever the state was at dispatch; every change of a state is a step of a
\* prompting handler or of one of the two state-specific text handlers.
C20_NonPromptingKeepState ==
    /\ [][\A t \in Stepped : t.handler \in NonPrompting => fsm' = fsm]_vars
    /\ [][fsm' # fsm => \E t \in Stepped : t.handler \in StateWriters]_vars

\* the add-to-watchlist button pressed while the calculator waits for its
\* input: the row is stored, the confirmation is out, the state is as it was
C20_Witness ==
    \E t \in Running :
        /\ t.handler = "add_watchlist_callback" /\ t.pc = "last"
        /\ t.st = AwaitingCalculatorInput /\ fsm[t.user] = t.st
        /\ Len(watchlist) > 0

-----------------------------------------------------------------------------
(* Properties of the two tables together (Spec) *)

\* C21: every row of the table watchlist has the user_id of a row of the
\* table users, the reference its schema declares, also when the user pressed
\* "add to watchlist" and never sent /start.
C21_WatchlistRefersToUsers ==
    \A i \in 1..Len(watchlist) :
        \E r \in users : r.user_id = watchlist[i].user_id

=============================================================================
